---- MODULE Spec2Model ----
(***************************************************************************)
(* A model of the request builder for admin account actions                *)
(* (src/requests/admin/account.rs), of the Tag entity's decoding           *)
(* (src/entities/status.rs) and of the typed identifiers the two consume   *)
(* (entities/src/lib.rs, module ids).                                      *)
(*                                                                         *)
(* Rust strings are sequences of one-character strings, so that the case   *)
(* conversion of enum tokens and the decimal form of numbers are computed  *)
(* and not assumed.  Option<T> is a sequence of length at most one.        *)
(***************************************************************************)
EXTENDS Integers, Sequences, FiniteSets, TLC

VARIABLES
    self,       \* the AccountActionRequestBuilder being accumulated
    request,    \* Option<AccountActionRequest>: the payload of the last build()
    result,     \* "none" | "Ok" | "panic": how the last build() ended
    ser,        \* Option<JSON object>: serde_json::to_string(&request)
    query,      \* Option<[query name -> BOOLEAN]>: the is_* answers for request.action
    hist,       \* history of the optional setters called, oldest first
    seed,       \* Option<AccountAction>: the action the builder was seeded with
    builtAt,    \* how many setter calls had been made at the last build()
    lastOp,     \* name of the operation that produced this state
    idWire,     \* JSON token handed to an identifier's decode
    idKind,     \* resource kind of the identifier being decoded
    idValue,    \* Option<decode outcome>
    idOut,      \* Option<JSON token>: the encoding of the decoded identifier
    idBack,     \* Option<decode outcome> of idOut
    tagWire,    \* JSON object handed to Tag's decode
    tagValue,   \* Option<decode outcome>
    tagOut      \* Option<JSON object>: the encoding of the decoded Tag

vars == <<self, request, result, ser, query, hist, seed, builtAt, lastOp,
          idWire, idKind, idValue, idOut, idBack, tagWire, tagValue, tagOut>>

builderVars == <<self, request, result, ser, query, hist, seed, builtAt, lastOp>>
idVars == <<idWire, idKind, idValue, idOut, idBack>>
tagVars == <<tagWire, tagValue, tagOut>>

---------------------------------------------------------------------------
(* Bounds of the model. *)

\* Most optional-setter calls made on one builder.
MaxCalls == 3
\* Longest history array in a Tag wire object.
MaxHistory == 2
\* Largest JSON number handed to an identifier's decode.
MaxIdNumber == 50
\* Longest digit string handed to an identifier's decode.
MaxIdLen == 2

---------------------------------------------------------------------------
(* Option<T> *)

None == <<>>
Some(v) == <<v>>
IsSome(o) == Len(o) = 1
IsNone(o) == Len(o) = 0
Unwrap(o) == o[1]

---------------------------------------------------------------------------
(* Characters and strings *)

UpperAlpha == <<"A","B","C","D","E","F","G","H","I","J","K","L","M",
                "N","O","P","Q","R","S","T","U","V","W","X","Y","Z">>
LowerAlpha == <<"a","b","c","d","e","f","g","h","i","j","k","l","m",
                "n","o","p","q","r","s","t","u","v","w","x","y","z">>
Digits == <<"0","1","2","3","4","5","6","7","8","9">>

is_uppercase(ch) == \E i \in 1..Len(UpperAlpha) : UpperAlpha[i] = ch

to_ascii_lowercase(ch) ==
    IF is_uppercase(ch)
    THEN LowerAlpha[CHOOSE i \in 1..Len(UpperAlpha) : UpperAlpha[i] = ch]
    ELSE ch

RECURSIVE SnakeFrom(_, _)
SnakeFrom(ident, i) ==
    IF i > Len(ident) THEN <<>>
    ELSE (IF i > 1 /\ is_uppercase(ident[i]) THEN <<"_">> ELSE <<>>)
         \o <<to_ascii_lowercase(ident[i])>>
         \o SnakeFrom(ident, i + 1)

\* serde's rename_all = "snake_case" applied to a variant identifier.
snake_case(ident) == SnakeFrom(ident, 1)

---------------------------------------------------------------------------
(* JSON values *)

JStr(s)  == [t |-> "string", s |-> s]
JNum(n)  == [t |-> "number", n |-> n]
JBool(b) == [t |-> "bool", b |-> b]
JNull    == [t |-> "null"]
JArr(a)  == [t |-> "array", a |-> a]
JObj(o)  == [t |-> "object", o |-> o]

\* The keys and values of an ordered JSON object, a sequence of <<key, value>>.
KeySet(obj) == {obj[i][1] : i \in 1..Len(obj)}
ValueOf(obj, k) == obj[CHOOSE i \in 1..Len(obj) : obj[i][1] = k][2]

---------------------------------------------------------------------------
(* Result<T, E> *)

Ok(v)  == [ok |-> TRUE, v |-> v]
Err(e) == [ok |-> FALSE, e |-> e]

---------------------------------------------------------------------------
(* Typed identifiers (module ids): one newtype over a string per resource  *)
(* kind.                                                                   *)

IdKinds == {"ReportId", "WarningPresetId"}

\* ReportId::new(raw), WarningPresetId::new(raw)
Id(kind, raw) == [kind |-> kind, raw |-> raw]

RECURSIVE to_string(_)
\* The decimal form of a natural number.
to_string(n) ==
    IF n < 10 THEN <<Digits[n + 1]>>
    ELSE to_string(n \div 10) \o <<Digits[(n % 10) + 1]>>

\* encode: always a JSON string holding the raw value.
IdSerialize(id) == JStr(id.raw)

IdDeserializeStringOnly(kind, w) ==
    IF w.t = "string" THEN Ok(Id(kind, w.s)) ELSE Err("DecodeError")
\* decode: a JSON string or a JSON number, normalised to the string form.
IdDeserialize(kind, w) ==
    CASE w.t = "string" -> Ok(Id(kind, w.s))
      [] w.t = "number" -> Ok(Id(kind, to_string(w.n)))
      [] OTHER -> Err("DecodeError")

---------------------------------------------------------------------------
(* enum AccountAction *)

AccountAction == {"None", "Sensitive", "Disable", "Silence", "Suspend"}

\* The identifier of each variant as it is written in the declaration.
VariantIdent(a) ==
    CASE a = "None"      -> <<"N","o","n","e">>
      [] a = "Sensitive" -> <<"S","e","n","s","i","t","i","v","e">>
      [] a = "Disable"   -> <<"D","i","s","a","b","l","e">>
      [] a = "Silence"   -> <<"S","i","l","e","n","c","e">>
      [] a = "Suspend"   -> <<"S","u","s","p","e","n","d">>

\* What the enum derives.
AccountActionDerives ==
    {"Debug", "Clone", "Copy", "PartialEq", "Eq", "Serialize", "is_enum_variant"}

AccountActionSerializeIdent(a) == JStr(VariantIdent(a))
\* Serialize of a unit variant under rename_all = "snake_case".
AccountActionSerialize(a) == JStr(snake_case(VariantIdent(a)))

\* Deserialize of the enum: an implementation exists only if it is derived.
AccountActionDeserialize(w) ==
    IF "Deserialize" \notin AccountActionDerives THEN Err("NoImpl")
    ELSE IF \E a \in AccountAction : AccountActionSerialize(a) = w
         THEN Ok(CHOOSE a \in AccountAction : AccountActionSerialize(a) = w)
         ELSE Err("DecodeError")

\* The queries is_enum_variant generates: a match on the variant.
is_none(a)      == a = "None"
is_sensitive(a) == a = "Sensitive"
is_disable(a)   == a = "Disable"
is_silence_matching_suspend(a) == a \in {"Silence", "Suspend"}
is_silence(a)   == a = "Silence"
is_suspend(a)   == a = "Suspend"

QueryNames == {"is_none", "is_sensitive", "is_disable", "is_silence", "is_suspend"}

\* The answers of all five queries for one value.
Queries(a) ==
    [q \in QueryNames |->
        CASE q = "is_none"      -> is_none(a)
          [] q = "is_sensitive" -> is_sensitive(a)
          [] q = "is_disable"   -> is_disable(a)
          [] q = "is_silence"   -> is_silence(a)
          [] q = "is_suspend"   -> is_suspend(a)]

---------------------------------------------------------------------------
(* struct AccountActionRequest and its derived builder *)

\* The fields in declaration order.
FieldOrderSwapped ==
    <<"action", "text", "report_id", "warning_preset_id", "send_email_notification">>
FieldOrder ==
    <<"action", "report_id", "warning_preset_id", "text", "send_email_notification">>

OptionalFields == {"report_id", "warning_preset_id", "text", "send_email_notification"}

\* #[serde(rename = "type")] on action; every other key is the field's name.
WireKey(f) == IF f = "action" THEN "type" ELSE f

\* AccountActionRequestBuilder::create_empty(): every field None.
create_empty ==
    [action |-> None, report_id |-> None, warning_preset_id |-> None,
     text |-> None, send_email_notification |-> None]

\* The private setter of the required field.
set_action(b, a) == [b EXCEPT !.action = Some(a)]

setter_keep_first(b, f, v) == IF IsSome(b[f]) THEN b ELSE [b EXCEPT ![f] = Some(Some(v))]
setter_clearing_text(b, f, v) ==
    [b EXCEPT ![f] = Some(Some(v)), !.text = IF f = "text" THEN Some(Some(v)) ELSE None]
\* A public setter under setter(into, strip_option): takes the bare value
\* and stores it wrapped.
setter(b, f, v) == [b EXCEPT ![f] = Some(Some(v))]

new_builder_unseeded(a) == create_empty
\* AccountActionRequest::builder(action)
new_builder(a) == set_action(create_empty, a)

\* #[builder(default)]: an optional field never set builds as its default, None.
field_or_default(b, f) == IF IsSome(b[f]) THEN Unwrap(b[f]) ELSE None

\* The generated build function (build_fn(private, name = "try_build")).
try_build(b) ==
    IF IsNone(b.action) THEN Err("UninitializedField(action)")
    ELSE Ok([action |-> Unwrap(b.action),
             report_id |-> field_or_default(b, "report_id"),
             warning_preset_id |-> field_or_default(b, "warning_preset_id"),
             text |-> field_or_default(b, "text"),
             send_email_notification |-> field_or_default(b, "send_email_notification")])

\* Result::expect: the value, or a panic.
expect(r) == IF r.ok THEN [panic |-> FALSE, v |-> r.v] ELSE [panic |-> TRUE]

\* The JSON value of one field that is serialized.
SerializeField(req, f) ==
    CASE f = "action" -> AccountActionSerialize(req.action)
      [] f \in {"report_id", "warning_preset_id"} -> IdSerialize(Unwrap(req[f]))
      [] f = "text" -> JStr(Unwrap(req.text))
      [] f = "send_email_notification" -> JBool(Unwrap(req.send_email_notification))

\* #[skip_serializing_none]: an Option field holding None is left out.
skip_never(req, f) == FALSE
skip_serializing_none(req, f) == f \in OptionalFields /\ IsNone(req[f])

RECURSIVE SerializeFrom(_, _)
SerializeFrom(req, i) ==
    IF i > Len(FieldOrder) THEN <<>>
    ELSE LET f == FieldOrder[i] IN
         (IF skip_serializing_none(req, f) THEN <<>>
          ELSE IF f \in OptionalFields /\ IsNone(req[f]) THEN << <<WireKey(f), JNull>> >>
          ELSE << <<WireKey(f), SerializeField(req, f)>> >>)
         \o SerializeFrom(req, i + 1)

\* derive(Serialize) on AccountActionRequest: the fields in declaration order.
Serialize(req) == SerializeFrom(req, 1)

---------------------------------------------------------------------------
(* Values the callers pass *)

Id666 == <<"6","6","6">>
Id42  == <<"4","2">>
ReportIds == {Id("ReportId", Id666), Id("ReportId", Id42)}
WarningPresetIds == {Id("WarningPresetId", Id42)}
Texts == {<<"y","o","u">>, <<"H","u","s","h">>}

---------------------------------------------------------------------------
(* Operations on a builder *)

Alive == result # "panic"

\* One call of an optional setter.
Set(f, v) ==
    /\ Len(hist) < MaxCalls
    /\ self' = setter(self, f, v)
    /\ hist' = Append(hist, <<f, v>>)
    /\ lastOp' = f
    /\ UNCHANGED <<request, result, ser, query, seed, builtAt, idVars, tagVars>>

report_id(v) == Alive /\ Set("report_id", v)
warning_preset_id(v) == Alive /\ Set("warning_preset_id", v)
text(v) == Alive /\ Set("text", v)
send_email_notification(v) == Alive /\ Set("send_email_notification", v)

\* The private setter, callable inside the module only.
action(a) ==
    /\ Alive
    /\ IsNone(self.action)
    /\ self' = set_action(self, a)
    /\ seed' = Some(a)
    /\ lastOp' = "action"
    /\ UNCHANGED <<request, result, ser, query, hist, builtAt, idVars, tagVars>>

\* AccountActionRequestBuilder::build(&self)
build ==
    /\ Alive
    /\ LET r == expect(try_build(self)) IN
         IF r.panic
         THEN result' = "panic" /\ request' = request
         ELSE result' = "Ok" /\ request' = Some(r.v)
    /\ builtAt' = Len(hist)
    /\ lastOp' = "build"
    /\ UNCHANGED <<self, ser, query, hist, seed, idVars, tagVars>>

\* serde_json::to_string(&request)
to_string_request ==
    /\ Alive
    /\ IsSome(request)
    /\ ser' = Some(Serialize(Unwrap(request)))
    /\ lastOp' = "to_string"
    /\ UNCHANGED <<self, request, result, query, hist, seed, builtAt, idVars, tagVars>>

\* The five is_* queries asked of the payload's action.
is_variant ==
    /\ Alive
    /\ IsSome(request)
    /\ query' = Some(Queries(Unwrap(request).action))
    /\ lastOp' = "is_variant"
    /\ UNCHANGED <<self, request, result, ser, hist, seed, builtAt, idVars, tagVars>>

IdIdle ==
    /\ idWire = JNull /\ idKind = "ReportId"
    /\ idValue = None /\ idOut = None /\ idBack = None
TagIdle == tagWire = JNull /\ tagValue = None /\ tagOut = None
BuilderIdle ==
    /\ self = create_empty /\ request = None /\ result = "none" /\ ser = None
    /\ query = None /\ hist = <<>> /\ seed = None /\ builtAt = 0 /\ lastOp = "init"

\* The public interface: a builder comes from AccountActionRequest::builder only.
Init ==
    /\ \E a \in AccountAction : self = new_builder(a) /\ seed = Some(a)
    /\ request = None /\ result = "none" /\ ser = None /\ query = None
    /\ hist = <<>> /\ builtAt = 0 /\ lastOp = "builder"
    /\ IdIdle /\ TagIdle

Next ==
    \/ \E v \in ReportIds : report_id(v)
    \/ \E v \in WarningPresetIds : warning_preset_id(v)
    \/ \E v \in Texts : text(v)
    \/ \E v \in BOOLEAN : send_email_notification(v)
    \/ build
    \/ to_string_request
    \/ is_variant

Spec == Init /\ [][Next]_vars

\* Inside the module: create_empty and the action setter are callable too.
CrateInit ==
    /\ self = create_empty /\ seed = None
    /\ request = None /\ result = "none" /\ ser = None /\ query = None
    /\ hist = <<>> /\ builtAt = 0 /\ lastOp = "create_empty"
    /\ IdIdle /\ TagIdle

CrateNext ==
    \/ \E a \in AccountAction : action(a)
    \/ \E v \in ReportIds : report_id(v)
    \/ \E v \in WarningPresetIds : warning_preset_id(v)
    \/ \E v \in Texts : text(v)
    \/ \E v \in BOOLEAN : send_email_notification(v)
    \/ build
    \/ to_string_request
    \/ is_variant

CrateSpec == CrateInit /\ [][CrateNext]_vars

---------------------------------------------------------------------------
(* struct Tag and struct TagHistory: derive(Deserialize, Serialize).  A    *)
(* wire object handed to decode is a function from its keys to JSON values.*)

StringDeserialize(w) ==
    IF w.t = "string" THEN Ok(w.s) ELSE Err("DecodeError")

\* Option<bool>: null is None, a boolean is Some.
OptionBoolDeserialize(w) ==
    CASE w.t = "null" -> Ok(None)
      [] w.t = "bool" -> Ok(Some(w.b))
      [] OTHER -> Err("DecodeError")

TagHistoryKeys == {"day", "uses", "accounts"}

\* struct TagHistory: three required strings.
TagHistoryDeserialize(w) ==
    IF /\ w.t = "object"
       /\ TagHistoryKeys \subseteq DOMAIN w.o
       /\ \A k \in TagHistoryKeys : StringDeserialize(w.o[k]).ok
    THEN Ok([day |-> w.o["day"].s, uses |-> w.o["uses"].s,
             accounts |-> w.o["accounts"].s])
    ELSE Err("DecodeError")

\* Vec<TagHistory>: an array whose elements all decode.
VecTagHistoryDeserialize(w) ==
    IF w.t = "array" /\ \A i \in 1..Len(w.a) : TagHistoryDeserialize(w.a[i]).ok
    THEN Ok([i \in 1..Len(w.a) |-> TagHistoryDeserialize(w.a[i]).v])
    ELSE Err("DecodeError")

\* A required field: the key must be present.
RequiredString(o, k) ==
    IF k \in DOMAIN o THEN StringDeserialize(o[k]) ELSE Err("missing_field")

HistoryRequired(o) ==
    IF "history" \in DOMAIN o THEN VecTagHistoryDeserialize(o["history"])
    ELSE Err("missing_field")
\* #[serde(default = "Vec::new")] on history: Vec::new() when the key is absent.
HistoryField(o) ==
    IF "history" \in DOMAIN o THEN VecTagHistoryDeserialize(o["history"])
    ELSE Ok(<<>>)

\* An Option field with no attribute: None when the key is absent.
FollowingField(o) ==
    IF "following" \in DOMAIN o THEN OptionBoolDeserialize(o["following"])
    ELSE Ok(None)

\* derive(Deserialize) on Tag.
TagDeserialize(o) ==
    LET n == RequiredString(o, "name")
        u == RequiredString(o, "url")
        h == HistoryField(o)
        f == FollowingField(o)
    IN  IF n.ok /\ u.ok /\ h.ok /\ f.ok
        THEN Ok([name |-> n.v, url |-> u.v, history |-> h.v, following |-> f.v])
        ELSE Err("DecodeError")

TagHistorySerialize(h) ==
    JObj([k \in TagHistoryKeys |->
            JStr(CASE k = "day" -> h.day [] k = "uses" -> h.uses
                   [] k = "accounts" -> h.accounts)])

\* derive(Serialize) on Tag: every field, in declaration order; None as null.
TagSerialize(tg) ==
    << <<"name", JStr(tg.name)>>,
       <<"url", JStr(tg.url)>>,
       <<"history", JArr([i \in 1..Len(tg.history) |-> TagHistorySerialize(tg.history[i])])>>,
       <<"following", IF IsNone(tg.following) THEN JNull ELSE JBool(Unwrap(tg.following))>> >>

---------------------------------------------------------------------------
(* Wire inputs of the decoders *)

IdChars == {"0", "2", "4", "6"}
IdStrings == UNION {[1..k -> IdChars] : k \in 1..MaxIdLen}
IdWires ==
    {JStr(s) : s \in IdStrings} \cup {JNum(n) : n \in 0..MaxIdNumber}
    \cup {JBool(TRUE), JNull}

HistoryElems ==
    {JObj([k \in TagHistoryKeys |-> JStr(<<"1">>)]),
     JObj([k \in {"day", "accounts"} |-> JStr(<<"1">>)])}
HistoryWires ==
    {JArr(a) : a \in UNION {[1..k -> HistoryElems] : k \in 0..MaxHistory}} \cup {JNull}

TagKeys == {"name", "url", "history", "following"}

\* The JSON values a Tag wire object may hold under each key.
TagFieldWires(k) ==
    CASE k = "name" -> {JStr(<<"r","u","s","t">>), JNum(1)}
      [] k = "url" -> {JStr(<<"u">>), JNull}
      [] k = "history" -> HistoryWires
      [] k = "following" -> {JNull, JBool(TRUE), JBool(FALSE), JStr(<<"n","o">>)}

TagWires ==
    UNION {{o \in [ks -> UNION {TagFieldWires(k) : k \in ks}] :
                \A k \in ks : o[k] \in TagFieldWires(k)} : ks \in SUBSET TagKeys}

---------------------------------------------------------------------------
(* Decoding and encoding an identifier *)

id_decode ==
    /\ IsNone(idValue)
    /\ idValue' = Some(IdDeserialize(idKind, idWire))
    /\ UNCHANGED <<idWire, idKind, idOut, idBack, builderVars, tagVars>>

id_encode ==
    /\ IsSome(idValue) /\ Unwrap(idValue).ok
    /\ IsNone(idOut)
    /\ idOut' = Some(IdSerialize(Unwrap(idValue).v))
    /\ UNCHANGED <<idWire, idKind, idValue, idBack, builderVars, tagVars>>

id_decode_encoded ==
    /\ IsSome(idOut)
    /\ IsNone(idBack)
    /\ idBack' = Some(IdDeserialize(idKind, Unwrap(idOut)))
    /\ UNCHANGED <<idWire, idKind, idValue, idOut, builderVars, tagVars>>

IdInit ==
    /\ idWire \in IdWires /\ idKind \in IdKinds
    /\ idValue = None /\ idOut = None /\ idBack = None
    /\ BuilderIdle /\ TagIdle

IdNext == id_decode \/ id_encode \/ id_decode_encoded

IdSpec == IdInit /\ [][IdNext]_vars

---------------------------------------------------------------------------
(* Decoding and encoding a Tag *)

tag_decode ==
    /\ IsNone(tagValue)
    /\ tagValue' = Some(TagDeserialize(tagWire))
    /\ UNCHANGED <<tagWire, tagOut, builderVars, idVars>>

tag_encode ==
    /\ IsSome(tagValue) /\ Unwrap(tagValue).ok
    /\ IsNone(tagOut)
    /\ tagOut' = Some(TagSerialize(Unwrap(tagValue).v))
    /\ UNCHANGED <<tagWire, tagValue, builderVars, idVars>>

TagInit ==
    /\ tagWire \in TagWires
    /\ tagValue = None /\ tagOut = None
    /\ BuilderIdle /\ IdIdle

TagNext == tag_decode \/ tag_encode

TagSpec == TagInit /\ [][TagNext]_vars

---------------------------------------------------------------------------
(* Properties *)

\* The setter calls the payload of the last build() was built from.
BuiltFrom == SubSeq(hist, 1, builtAt)
FieldsSet(h) == {h[i][1] : i \in 1..Len(h)}
\* The value of the last call of field f's setter in h.
LastValue(h, f) ==
    h[CHOOSE i \in 1..Len(h) :
        h[i][1] = f /\ \A j \in (i + 1)..Len(h) : h[j][1] # f][2]
\* The JSON value a field's argument is expected to appear as.
ExpectedJson(f, v) ==
    CASE f \in {"report_id", "warning_preset_id"} -> [t |-> "string", s |-> v.raw]
      [] f = "text" -> [t |-> "string", s |-> v]
      [] f = "send_email_notification" -> [t |-> "bool", b |-> v]
\* The wire token the documentation gives for each variant.
ExpectedToken(a) ==
    CASE a = "None"      -> <<"n","o","n","e">>
      [] a = "Sensitive" -> <<"s","e","n","s","i","t","i","v","e">>
      [] a = "Disable"   -> <<"d","i","s","a","b","l","e">>
      [] a = "Silence"   -> <<"s","i","l","e","n","c","e">>
      [] a = "Suspend"   -> <<"s","u","s","p","e","n","d">>
Encoded == Unwrap(ser)
Payload == Unwrap(request)

\* C1: the encoded payload's key set is exactly "type" plus the optional
\* fields that were set at least once before build(); no key is emitted
\* twice or with a null value, and each optional key carries the last value
\* set for it.
C1_OptionalOmit ==
    lastOp = "to_string" =>
        /\ KeySet(Encoded) = {"type"} \cup FieldsSet(BuiltFrom)
        /\ Len(Encoded) = Cardinality(KeySet(Encoded))
        /\ \A i \in 1..Len(Encoded) : Encoded[i][2].t # "null"
        /\ \A f \in FieldsSet(BuiltFrom) :
              ValueOf(Encoded, f) = ExpectedJson(f, LastValue(BuiltFrom, f))

\* A payload whose text was set twice to different values and whose other
\* optional fields were never set has been encoded.
C1_Witness ==
    /\ lastOp = "to_string"
    /\ builtAt = 2
    /\ hist[1][1] = "text" /\ hist[2][1] = "text" /\ hist[1][2] # hist[2][2]
    /\ Len(Encoded) = 2

\* The position of each wire key in the struct's declaration.
Rank(k) ==
    CASE k = "type" -> 1
      [] k = "report_id" -> 2
      [] k = "warning_preset_id" -> 3
      [] k = "text" -> 4
      [] k = "send_email_notification" -> 5

\* C2: the keys of an encoded payload appear in declaration order, whatever
\* the order in which the setters were called.
C2_DeclarationOrder ==
    lastOp = "to_string" =>
        \A i, j \in 1..Len(Encoded) :
            i < j => Rank(Encoded[i][1]) < Rank(Encoded[j][1])

\* text was set before report_id, and the encoding is the one the test of
\* the module expects: type, report_id, text.
C2_Witness ==
    /\ lastOp = "to_string"
    /\ builtAt = 2
    /\ hist[1][1] = "text" /\ hist[2][1] = "report_id"
    /\ ser = Some(<< <<"type", [t |-> "string", s |-> <<"s","u","s","p","e","n","d">>]>>,
                     <<"report_id", [t |-> "string", s |-> <<"6","6","6">>]>>,
                     <<"text", [t |-> "string", s |-> <<"y","o","u">>]>> >>)

\* C3: build() on a builder whose required field is missing hands a
\* recoverable error back to the caller; it never panics and never yields a
\* payload.
C3_BuildErrorNotPanic ==
    (lastOp = "build" /\ IsNone(self.action)) =>
        (result = "Err" /\ result # "panic" /\ IsNone(request))

\* C4: every builder reachable through the public interface holds the
\* action it was seeded with, so build() always succeeds and the payload's
\* action is the seed.
C4_SeededAction ==
    /\ IsSome(seed)
    /\ self.action = seed
    /\ result # "panic"
    /\ (lastOp = "build" => result = "Ok" /\ IsSome(request))
    /\ (IsSome(request) => Payload.action = Unwrap(seed))

\* A payload was built after two setter calls on a builder seeded with Silence.
C4_Witness ==
    /\ lastOp = "build"
    /\ builtAt = 2
    /\ seed = Some("Silence")
    /\ IsSome(request) /\ Payload.action = "Silence"

\* The calls of h that are the last call of their field's setter, in order.
LastCalls(h) ==
    LET keep == {i \in 1..Len(h) : \A j \in (i + 1)..Len(h) : h[j][1] # h[i][1]}
        Nth(n) == CHOOSE i \in keep : Cardinality({k \in keep : k < i}) = n - 1
    IN  [n \in 1..Cardinality(keep) |-> h[Nth(n)]]

RECURSIVE Replay(_, _)
\* The builder b after the setter calls of h.
Replay(b, h) ==
    IF h = <<>> THEN b
    ELSE Replay(setter(b, h[1][1], h[1][2]), Tail(h))

\* C5: calling a setter again overwrites: the builder is the one that only
\* the last call of each setter would have produced, and so is the payload
\* of a following build(); no call fails.
C5_LastSetWins ==
    /\ result # "panic"
    /\ self = Replay(new_builder(Unwrap(seed)), LastCalls(hist))
    /\ (lastOp = "build" =>
          request = Some(try_build(Replay(new_builder(Unwrap(seed)), LastCalls(hist))).v))

\* A payload was built after the same setter was called twice with
\* different values.
C5_Witness ==
    /\ lastOp = "build"
    /\ \E i, j \in 1..Len(hist) :
          i < j /\ hist[i][1] = hist[j][1] /\ hist[i][2] # hist[j][2]
    /\ Len(LastCalls(hist)) < Len(hist)

LowerSnake(s) ==
    \A i \in 1..Len(s) : s[i] = "_" \/ \E k \in 1..Len(LowerAlpha) : LowerAlpha[k] = s[i]

\* C6 as stated: the action is encoded as its lower-snake-case token and
\* decode is the inverse mapping, decode(encode(a)) = a.
C6_DecodeInverts ==
    lastOp = "to_string" =>
        /\ ValueOf(Encoded, "type") = [t |-> "string", s |-> ExpectedToken(Payload.action)]
        /\ AccountActionDeserialize(ValueOf(Encoded, "type")) = Ok(Payload.action)

\* C6, amended: the action is encoded as a JSON string holding its
\* lower-snake-case token, no other variant encodes to the same token, and
\* the enum has no decode of its own.
C6_EncodeTokens ==
    lastOp = "to_string" =>
        LET tok == ValueOf(Encoded, "type") IN
        /\ tok = [t |-> "string", s |-> ExpectedToken(Payload.action)]
        /\ LowerSnake(tok.s)
        /\ \A b \in AccountAction \ {Payload.action} : AccountActionSerialize(b) # tok
        /\ ~AccountActionDeserialize(tok).ok

\* A Sensitive payload has been encoded.
C6_Witness ==
    /\ lastOp = "to_string"
    /\ Payload.action = "Sensitive"
    /\ Encoded[1] = <<"type", [t |-> "string", s |-> <<"s","e","n","s","i","t","i","v","e">>]>>

\* The query named after each variant.
OwnQuery(a) ==
    CASE a = "None"      -> "is_none"
      [] a = "Sensitive" -> "is_sensitive"
      [] a = "Disable"   -> "is_disable"
      [] a = "Silence"   -> "is_silence"
      [] a = "Suspend"   -> "is_suspend"

\* C7: exactly one of the five is_* queries answers true for a value, the
\* one named after its variant.
C7_ExactlyOneQuery ==
    lastOp = "is_variant" =>
        LET q == Unwrap(query) IN
        /\ Cardinality({n \in QueryNames : q[n]}) = 1
        /\ q[OwnQuery(Payload.action)]

\* The queries were asked of a Suspend payload.
C7_Witness ==
    /\ lastOp = "is_variant"
    /\ Payload.action = "Suspend"
    /\ Unwrap(query)["is_suspend"] /\ ~Unwrap(query)["is_silence"]

DigitValue(c) == (CHOOSE i \in 1..Len(Digits) : Digits[i] = c) - 1
RECURSIVE ParseDec(_)
\* The number a digit string denotes.
ParseDec(s) ==
    IF Len(s) = 0 THEN 0
    ELSE 10 * ParseDec(SubSeq(s, 1, Len(s) - 1)) + DigitValue(s[Len(s)])
\* A digit string with no leading zero.
Canonical(s) == Len(s) = 1 \/ s[1] # "0"

\* C8: decoding a JSON number yields the identifier that decoding the JSON
\* string of its decimal form yields; encode emits a JSON string holding the
\* raw value; decode(encode(id)) = id.
C8_TolerantId ==
    /\ (IsSome(idValue) /\ idWire.t = "number") =>
          /\ Unwrap(idValue).ok
          /\ ParseDec(Unwrap(idValue).v.raw) = idWire.n
          /\ \A s \in IdStrings :
                (Canonical(s) /\ ParseDec(s) = idWire.n) =>
                    IdDeserialize(idKind, [t |-> "string", s |-> s]) = Unwrap(idValue)
    /\ (IsSome(idValue) /\ idWire.t = "string") =>
          Unwrap(idValue) = Ok([kind |-> idKind, raw |-> idWire.s])
    /\ IsSome(idOut) =>
          Unwrap(idOut) = [t |-> "string", s |-> Unwrap(idValue).v.raw]
    /\ IsSome(idBack) => Unwrap(idBack) = Unwrap(idValue)

\* The JSON number 42 was decoded to the ReportId "42", encoded and decoded
\* again.
C8_Witness ==
    /\ idWire = [t |-> "number", n |-> 42]
    /\ idKind = "ReportId"
    /\ IsSome(idBack)
    /\ Unwrap(idValue) = Ok([kind |-> "ReportId", raw |-> <<"4","2">>])
    /\ idOut = Some([t |-> "string", s |-> <<"4","2">>])

\* A wire object whose name and url are strings and whose following, if
\* present, is null or a boolean.
RestWellFormed(o) ==
    /\ {"name", "url"} \subseteq DOMAIN o
    /\ o["name"].t = "string" /\ o["url"].t = "string"
    /\ "following" \in DOMAIN o => o["following"].t \in {"null", "bool"}

\* C9: a Tag wire object lacking the history key decodes, with an empty
\* history; a following key that is absent or null decodes to None; name and
\* url are decoded unchanged.
C9_TagDefaults ==
    IsSome(tagValue) =>
        LET r == Unwrap(tagValue) IN
        /\ (RestWellFormed(tagWire) /\ "history" \notin DOMAIN tagWire) =>
              (r.ok /\ r.v.history = <<>>)
        /\ (r.ok /\ ("following" \notin DOMAIN tagWire \/ tagWire["following"].t = "null")) =>
              r.v.following = None
        /\ r.ok => (r.v.name = tagWire["name"].s /\ r.v.url = tagWire["url"].s)

\* A wire object holding only name and url has been decoded.
C9_Witness ==
    /\ IsSome(tagValue)
    /\ DOMAIN tagWire = {"name", "url"}
    /\ Unwrap(tagValue).ok
    /\ Unwrap(tagValue).v.history = <<>>
    /\ Unwrap(tagValue).v.following = None

\* C10: a setter changes only its own field of the builder and no payload;
\* build() leaves the builder unchanged, and a second build() with no
\* setter in between returns an equal payload.
C10_Frame ==
    [][/\ lastOp' \in OptionalFields =>
            /\ \A g \in DOMAIN self \ {lastOp'} : self'[g] = self[g]
            /\ request' = request
       /\ lastOp' = "build" => self' = self
       /\ (lastOp' = "build" /\ lastOp = "build") => request' = request]_vars

\* A setter was called after a payload was built, and the payload still
\* lacks the field.
C10_Witness ==
    /\ IsSome(request)
    /\ builtAt = 1
    /\ Len(hist) = 2
    /\ lastOp = hist[2][1]
    /\ hist[2][1] # hist[1][1]
    /\ IsNone(Payload[hist[2][1]])

====
